---- MODULE Spec2Model ----
(***************************************************************************)
(* Model of scf_log.producer.AsyncProducer: the bounded buffer guarded by  *)
(* one lock with two conditions, the background flush thread, the          *)
(* caller-side send / flush / close operations and the chunked delivery    *)
(* with exponential backoff.                                               *)
(*                                                                         *)
(* There is no clock: every timeout (linger wait, blocking send, join)     *)
(* may elapse at any moment. The history variable age adds up the linger   *)
(* waits that timed out and the backoff sleeps since the oldest buffered   *)
(* entry was admitted, a lower bound of the time that entry has waited.    *)
(***************************************************************************)
EXTENDS Integers, Sequences, FiniteSets, TLC

\* ------------------------------------------------------------------------
\* Bounds of the model
\* ------------------------------------------------------------------------
MaxSends == 2
MaxFlushes == 1
MaxCloses == 2
MaxCapacity == 2
MaxBatchLen == 5
MaxChunk == 3
MaxRetries == 3
MaxBackoff == 3

\* Threads: the flush thread and the calling threads.
Sched == "scf-cls-flush"
Callers == {"c1", "c2"}
Threads == Callers \cup {Sched}
Free == "free"

\* Entry sizes offered to send().
Sizes == {1, 2}
NoEntry == [id |-> 0, size |-> 0]

\* Sink error kinds and response statuses offered to the dispatcher.
ErrorCodes == {"InternalError", "Timeout", "SpeedQuotaExceed", "InvalidParam"}
Statuses == {400, 500}

Min(a, b) == IF a <= b THEN a ELSE b

\* The linger duration, in the time unit of the backoff values.
Linger == 2

VARIABLES
    config,         \* CLSConfig (read-only after construction)
    buffer,         \* self._buffer
    buffer_size,    \* self._buffer_size
    lock,           \* holder of self._lock, or Free
    not_empty,      \* threads waiting on self._not_empty
    not_full,       \* threads waiting on self._not_full
    closed,         \* self._closed
    stats,          \* ProducerStats counters
    pc,             \* position of every thread
    op,             \* public operation a caller is inside
    entry,          \* send(): the LogEntry being admitted
    entries,        \* drained list handed to _send_batch
    i,              \* _send_batch: loop index
    attempt,        \* _send_chunk: attempt number
    backoff_ms,     \* _send_chunk: current backoff
    last_err,       \* _send_chunk: kind of the last exception
    joinTimedOut,   \* close(): the join returned on timeout
    nsends,         \* history: send() calls issued
    nflush,         \* history: flush() calls issued
    closeCalls,     \* history: close() calls issued
    closeReturns,   \* history: close() calls returned
    reclosed,       \* history: close() was called after a close() returned
    accepted,       \* history: ids for which send() returned True
    chunkCount,     \* history: per id, number of chunks it was placed in
    chunks,         \* history: chunks of the current _send_batch, per thread
    delays,         \* history: sleeps of the current _send_chunk, per thread
    lateSend,       \* history: a send() was issued after a close() was issued
    sinkFailed,     \* history: some put_log_raw call failed
    overflowed,     \* history: some send() found the buffer full
    log_group_list, \* _send_chunk: the payload built from the chunk
    expired,        \* send(): a wait on not_full ran to its deadline
    events,         \* history: Sink outcomes and sleeps of the current chunk
    sent,           \* history: payloads passed to put_log_raw for the chunk
    finalDrain,     \* history: the flush thread began a drain while closed
    preClose,       \* history: per close(), ids buffered at its call
    age             \* history: time the oldest buffered entry has waited

bufVars == <<buffer, buffer_size>>
condVars == <<not_empty, not_full>>
disp == <<entries, i, attempt, backoff_ms, last_err, log_group_list>>
dispHist == <<chunkCount, chunks, delays, sinkFailed, events, sent>>
aux == <<expired, finalDrain, preClose, age>>
calls == <<nsends, nflush, closeCalls, closeReturns, reclosed, lateSend>>
vars == <<config, buffer, buffer_size, lock, not_empty, not_full, closed,
          stats, pc, op, entry, entries, i, attempt, backoff_ms, last_err,
          joinTimedOut, nsends, nflush, closeCalls, closeReturns, reclosed,
          accepted,
          chunkCount, chunks, delays, lateSend, sinkFailed, overflowed,
          log_group_list, expired, events, sent, finalDrain,
          preClose, age>>

\* ------------------------------------------------------------------------
\* Configuration
\* ------------------------------------------------------------------------
MakeConfig(cap, block, bsize, bcount, linger, r, base, maxb) ==
    [total_size_bytes |-> cap, max_block_sec |-> block,
     max_batch_size |-> bsize, max_batch_count |-> bcount,
     linger_ms |-> linger, retries |-> r,
     base_retry_backoff_ms |-> base, max_retry_backoff_ms |-> maxb]

\* Configurations of the concurrent specification: non-blocking and
\* blocking admission, both thresholds reachable within the capacity,
\* retries = 0 (a failed chunk is given up at once; the retry loop is
\* explored by SpecDispatch, where no other thread interferes with it).
Configs ==
    { MakeConfig(MaxCapacity, block, MaxCapacity, 2, Linger, 0, 1, 2) :
        block \in {0, 1} }

ZeroStats == [send_success |-> 0, send_fail |-> 0, log_count |-> 0,
              drop_count |-> 0]

InitCommon ==
    /\ buffer = <<>>
    /\ buffer_size = 0
    /\ lock = Free
    /\ not_empty = {}
    /\ not_full = {}
    /\ closed = FALSE
    /\ stats = ZeroStats
    /\ entry = [t \in Threads |-> NoEntry]
    /\ i = [t \in Threads |-> 0]
    /\ attempt = [t \in Threads |-> 0]
    /\ backoff_ms = [t \in Threads |-> 0]
    /\ last_err = [t \in Threads |-> "None"]
    /\ joinTimedOut = [t \in Threads |-> FALSE]
    /\ closeCalls = 0
    /\ closeReturns = 0
    /\ reclosed = FALSE
    /\ chunks = [t \in Threads |-> <<>>]
    /\ delays = [t \in Threads |-> <<>>]
    /\ lateSend = FALSE
    /\ sinkFailed = FALSE
    /\ overflowed = FALSE
    /\ log_group_list = [t \in Threads |-> <<>>]
    /\ expired = [t \in Threads |-> FALSE]
    /\ events = [t \in Threads |-> <<>>]
    /\ sent = [t \in Threads |-> <<>>]
    /\ finalDrain = FALSE
    /\ preClose = [t \in Threads |-> {}]
    /\ age = 0

\* The producer right after __init__: empty buffer, flush thread started.
Init ==
    /\ InitCommon
    /\ config \in Configs
    /\ pc = [t \in Threads |-> IF t = Sched THEN "loop" ELSE "idle"]
    /\ op = [t \in Threads |-> "none"]
    /\ entries = [t \in Threads |-> <<>>]
    /\ nflush = 0
    /\ nsends = 0
    /\ accepted = {}
    /\ chunkCount = [id \in 1..MaxSends |-> 0]

\* ------------------------------------------------------------------------
\* Condition variables and stats
\* ------------------------------------------------------------------------
\* Condition.notify(): wakes one waiter if there is one.
Notify(waiters) ==
    IF waiters = {} THEN {waiters} ELSE { waiters \ {w} : w \in waiters }

incr_success(s) == [s EXCEPT !.send_success = @ + 1]
incr_fail(s) == [s EXCEPT !.send_fail = @ + 1]
\* Mutant: a delivered chunk counts as one log.
incr_logs_PerChunk(s, n) == [s EXCEPT !.log_count = @ + 1]

incr_logs(s, n) == [s EXCEPT !.log_count = @ + n]
incr_drop(s, n) == [s EXCEPT !.drop_count = @ + n]

Overflows(e) == buffer_size + e.size > config.total_size_bytes

ThresholdReached(size, count) ==
    \/ size >= config.max_batch_size
    \/ count >= config.max_batch_count

\* ------------------------------------------------------------------------
\* send()
\* ------------------------------------------------------------------------
\* Return False from send().
SendReturnFalse(t) ==
    /\ pc' = [pc EXCEPT ![t] = "idle"]
    /\ op' = [op EXCEPT ![t] = "none"]
    /\ entry' = [entry EXCEPT ![t] = NoEntry]

\* send() is called: `if self._closed: return False`, else the entry is
\* built.
SendCall(t) ==
    /\ pc[t] = "idle"
    /\ nsends < MaxSends
    /\ nsends' = nsends + 1
    /\ lateSend' = (lateSend \/ closeCalls > 0)
    /\ IF closed
       THEN UNCHANGED <<pc, op, entry>>
       ELSE /\ \E sz \in Sizes :
                 entry' = [entry EXCEPT ![t] =
                               [id |-> nsends + 1, size |-> sz]]
            /\ pc' = [pc EXCEPT ![t] = "send_lock"]
            /\ op' = [op EXCEPT ![t] = "send"]
    /\ UNCHANGED <<config, aux, bufVars, lock, condVars, closed, stats, disp,
                   joinTimedOut, nflush, closeCalls, closeReturns, reclosed,
                   accepted, dispHist, overflowed>>

\* Mutant: the capacity check tests the buffer without the new entry.
SendAcquire_OffByEntry(t) ==
    /\ pc[t] = "send_lock"
    /\ lock = Free
    /\ IF buffer_size > config.total_size_bytes
       THEN /\ overflowed' = TRUE
            /\ UNCHANGED buffer
            /\ IF config.max_block_sec <= 0
               THEN /\ stats' = incr_drop(stats, 1)
                    /\ SendReturnFalse(t)
                    /\ UNCHANGED lock
               ELSE /\ lock' = t
                    /\ pc' = [pc EXCEPT ![t] = "send_block"]
                    /\ UNCHANGED <<stats, op, entry>>
       ELSE /\ buffer' = Append(buffer, entry[t])
            /\ lock' = t
            /\ pc' = [pc EXCEPT ![t] = "send_size"]
            /\ UNCHANGED <<stats, op, entry, overflowed>>
    /\ expired' = [expired EXCEPT ![t] = FALSE]
    /\ UNCHANGED <<config, finalDrain, preClose, age, buffer_size, condVars,
                   closed, disp, joinTimedOut, calls, accepted, dispHist>>

\* with self._not_full: the capacity check and, when there is room, the
\* append.
SendAcquire(t) ==
    /\ pc[t] = "send_lock"
    /\ lock = Free
    /\ IF Overflows(entry[t])
       THEN /\ overflowed' = TRUE
            /\ UNCHANGED buffer
            /\ IF config.max_block_sec <= 0
               THEN /\ stats' = incr_drop(stats, 1)
                    /\ SendReturnFalse(t)
                    /\ UNCHANGED lock
               ELSE /\ lock' = t
                    /\ pc' = [pc EXCEPT ![t] = "send_block"]
                    /\ UNCHANGED <<stats, op, entry>>
       ELSE /\ buffer' = Append(buffer, entry[t])
            /\ lock' = t
            /\ pc' = [pc EXCEPT ![t] = "send_size"]
            /\ UNCHANGED <<stats, op, entry, overflowed>>
    /\ expired' = [expired EXCEPT ![t] = FALSE]
    /\ UNCHANGED <<config, finalDrain, preClose, age, buffer_size, condVars,
                   closed, disp, joinTimedOut, calls, accepted, dispHist>>

\* The blocking loop: the deadline has passed.
SendBlockTimeout(t) ==
    /\ pc[t] = "send_block"
    /\ Overflows(entry[t])
    /\ stats' = incr_drop(stats, 1)
    /\ lock' = Free
    /\ SendReturnFalse(t)
    /\ expired' = [expired EXCEPT ![t] = FALSE]
    /\ UNCHANGED <<config, finalDrain, preClose, age, bufVars, condVars,
                   closed, disp, joinTimedOut, calls, accepted, dispHist,
                   overflowed>>

\* Mutant: the blocking loop waits again after its deadline.
SendBlockWait_NoDeadline(t) ==
    /\ pc[t] = "send_block"
    /\ Overflows(entry[t])
    /\ lock' = Free
    /\ not_full' = not_full \cup {t}
    /\ pc' = [pc EXCEPT ![t] = "send_wait"]
    /\ UNCHANGED <<config, expired, finalDrain, preClose, age, bufVars,
                   not_empty, closed, stats, op, entry, disp, joinTimedOut,
                   calls, accepted, dispHist, overflowed>>

\* The blocking loop: wait on not_full for the remaining time. After a wait
\* that ran to its timeout the deadline has passed and remaining <= 0.
SendBlockWait(t) ==
    /\ pc[t] = "send_block"
    /\ Overflows(entry[t])
    /\ ~expired[t]
    /\ lock' = Free
    /\ not_full' = not_full \cup {t}
    /\ pc' = [pc EXCEPT ![t] = "send_wait"]
    /\ UNCHANGED <<config, expired, finalDrain, preClose, age, bufVars,
                   not_empty, closed, stats, op, entry, disp, joinTimedOut,
                   calls, accepted, dispHist, overflowed>>

\* The blocking loop ends: the capacity condition holds again.
SendBlockAdmit(t) ==
    /\ pc[t] = "send_block"
    /\ ~Overflows(entry[t])
    /\ buffer' = Append(buffer, entry[t])
    /\ pc' = [pc EXCEPT ![t] = "send_size"]
    /\ expired' = [expired EXCEPT ![t] = FALSE]
    /\ UNCHANGED <<config, finalDrain, preClose, age, buffer_size, lock,
                   condVars, closed, stats, op, entry, disp, joinTimedOut,
                   calls, accepted, dispHist, overflowed>>

\* wait(timeout=remaining) times out.
SendWaitTimeout(t) ==
    /\ pc[t] = "send_wait"
    /\ t \in not_full
    /\ not_full' = not_full \ {t}
    /\ expired' = [expired EXCEPT ![t] = TRUE]
    /\ UNCHANGED <<config, finalDrain, preClose, age, bufVars, lock,
                   not_empty, closed, stats, pc, op, entry, disp,
                   joinTimedOut, calls, accepted, dispHist, overflowed>>

\* wait() returns (notified or timed out) once the lock is re-acquired.
SendWake(t) ==
    /\ pc[t] = "send_wait"
    /\ t \notin not_full
    /\ lock = Free
    /\ lock' = t
    /\ pc' = [pc EXCEPT ![t] = "send_block"]
    /\ UNCHANGED <<config, aux, bufVars, condVars, closed, stats, op, entry,
                   disp, joinTimedOut, calls, accepted, dispHist, overflowed>>

\* self._buffer_size += entry.size, the threshold notify, return True.
SendSize(t) ==
    /\ pc[t] = "send_size"
    /\ buffer_size' = buffer_size + entry[t].size
    /\ IF ThresholdReached(buffer_size + entry[t].size, Len(buffer))
       THEN not_empty' \in Notify(not_empty)
       ELSE UNCHANGED not_empty
    /\ lock' = Free
    /\ accepted' = accepted \cup {entry[t].id}
    /\ pc' = [pc EXCEPT ![t] = "idle"]
    /\ op' = [op EXCEPT ![t] = "none"]
    /\ entry' = [entry EXCEPT ![t] = NoEntry]
    /\ UNCHANGED <<config, aux, buffer, not_full, closed, stats, disp,
                   joinTimedOut, calls, dispHist, overflowed>>

\* ------------------------------------------------------------------------
\* flush(), _drain_buffer()
\* ------------------------------------------------------------------------
FlushCall(t) ==
    /\ pc[t] = "idle"
    /\ nflush < MaxFlushes
    /\ nflush' = nflush + 1
    /\ pc' = [pc EXCEPT ![t] = "drain"]
    /\ op' = [op EXCEPT ![t] = "flush"]
    /\ UNCHANGED <<config, aux, bufVars, lock, condVars, closed, stats, entry,
                   disp, joinTimedOut, nsends, closeCalls, closeReturns,
                   reclosed, lateSend, accepted, dispHist, overflowed>>

\* Where a thread continues after its drain-and-dispatch: the flush loop,
\* the rest of close(), or the caller of flush().
AfterFlush(t) ==
    IF t = Sched THEN "loop"
    ELSE IF op[t] = "close" THEN "close_stats" ELSE "idle"

ReturnFromFlush(t) ==
    /\ pc' = [pc EXCEPT ![t] = AfterFlush(t)]
    /\ op' = [op EXCEPT ![t] = IF AfterFlush(t) = "idle" THEN "none" ELSE @]

\* Mutant: the drain leaves the newest entry in the buffer.
DrainTake_LeavesOne(t) ==
    /\ pc[t] = "drain"
    /\ lock = Free
    /\ IF buffer = <<>>
       THEN /\ ReturnFromFlush(t)
            /\ UNCHANGED <<buffer, lock, entries>>
       ELSE /\ entries' = [entries EXCEPT ![t] = buffer]
            /\ buffer' = <<buffer[Len(buffer)]>>
            /\ lock' = t
            /\ pc' = [pc EXCEPT ![t] = "drain_reset"]
            /\ UNCHANGED op
    /\ finalDrain' = (finalDrain \/ (t = Sched /\ closed))
    /\ age' = 0
    /\ UNCHANGED <<config, expired, preClose, buffer_size, condVars, closed,
                   stats, entry, i, attempt, backoff_ms, last_err,
                   log_group_list, joinTimedOut, calls, accepted, dispHist,
                   overflowed>>

\* with self._lock: an empty buffer returns [] (and the caller skips
\* _send_batch); otherwise the list is taken and replaced by a new one.
DrainTake(t) ==
    /\ pc[t] = "drain"
    /\ lock = Free
    /\ IF buffer = <<>>
       THEN /\ ReturnFromFlush(t)
            /\ UNCHANGED <<buffer, lock, entries>>
       ELSE /\ entries' = [entries EXCEPT ![t] = buffer]
            /\ buffer' = <<>>
            /\ lock' = t
            /\ pc' = [pc EXCEPT ![t] = "drain_reset"]
            /\ UNCHANGED op
    /\ finalDrain' = (finalDrain \/ (t = Sched /\ closed))
    /\ age' = 0
    /\ UNCHANGED <<config, expired, preClose, buffer_size, condVars, closed,
                   stats, entry, i, attempt, backoff_ms, last_err,
                   log_group_list, joinTimedOut, calls, accepted, dispHist,
                   overflowed>>

\* Mutant: the drain leaves the byte counter as it was.
DrainReset_KeepSize(t) ==
    /\ pc[t] = "drain_reset"
    /\ lock' = Free
    /\ pc' = [pc EXCEPT ![t] = "drain_notify"]
    /\ UNCHANGED <<config, aux, bufVars, condVars, closed, stats, op, entry,
                   disp, joinTimedOut, calls, accepted, dispHist, overflowed>>

\* self._buffer_size = 0 and the end of the critical section.
DrainReset(t) ==
    /\ pc[t] = "drain_reset"
    /\ buffer_size' = 0
    /\ lock' = Free
    /\ pc' = [pc EXCEPT ![t] = "drain_notify"]
    /\ UNCHANGED <<config, aux, buffer, condVars, closed, stats, op, entry,
                   disp, joinTimedOut, calls, accepted, dispHist, overflowed>>

\* with self._not_full: notify_all(); the caller then enters _send_batch.
DrainNotify(t) ==
    /\ pc[t] = "drain_notify"
    /\ lock = Free
    /\ not_full' = {}
    /\ i' = [i EXCEPT ![t] = 0]
    /\ chunks' = [chunks EXCEPT ![t] = <<>>]
    /\ pc' = [pc EXCEPT ![t] = "batch_loop"]
    /\ UNCHANGED <<config, aux, bufVars, lock, not_empty, closed, stats, op,
                   entry, entries, attempt, backoff_ms, last_err,
                   log_group_list, joinTimedOut, calls, accepted, chunkCount,
                   delays, sinkFailed, events, sent, overflowed>>

\* ------------------------------------------------------------------------
\* _send_batch(), _send_chunk()
\* ------------------------------------------------------------------------
\* Mutant: the slice is one entry too long.
Chunk_TooLong(es, k, m) == SubSeq(es, k + 1, Min(k + m + 1, Len(es)))

\* entries[k : k + m]
Chunk(es, k, m) == SubSeq(es, k + 1, Min(k + m, Len(es)))

Ids(es) == { es[n].id : n \in DOMAIN es }

\* The chunk _send_chunk is working on.
CurrentChunk(t) == chunks[t][Len(chunks[t])]

\* _build_log_group_list: one log per entry, in the order of the entries;
\* a log is represented by the id of the entry it was built from.
BuildLogGroupList(es) == [k \in DOMAIN es |-> es[k].id]

\* What the Sink reported with a LogException, for the history: a transient
\* error kind or a server-error status ("retryable"), or neither ("fatal").
Reported(error_code, resp_status) ==
    IF error_code \in {"InternalError", "Timeout", "SpeedQuotaExceed"}
    THEN "retryable"
    ELSE IF resp_status < 500 THEN "fatal" ELSE "retryable"

\* Mutant: the payload is rebuilt for every attempt from the chunk and
\* whatever the buffer holds by then.
PutLogRaw_Rebuilt(t, outcome) ==
    /\ sent' = [sent EXCEPT ![t] =
                  Append(@, log_group_list[t] \o BuildLogGroupList(buffer))]
    /\ events' = [events EXCEPT ![t] = Append(@, outcome)]

\* self._client.put_log_raw(topic_id, log_group_list) with its outcome.
PutLogRaw(t, outcome) ==
    /\ sent' = [sent EXCEPT ![t] = Append(@, log_group_list[t])]
    /\ events' = [events EXCEPT ![t] = Append(@, outcome)]

\* One iteration of `for i in range(0, len(entries), max_batch_count)`:
\* slice the next chunk and enter _send_chunk, or leave the loop.
BatchLoop(t) ==
    /\ pc[t] = "batch_loop"
    /\ IF i[t] < Len(entries[t])
       THEN /\ chunks' = [chunks EXCEPT ![t] =
                   Append(@, Chunk(entries[t], i[t], config.max_batch_count))]
            /\ chunkCount' = [id \in DOMAIN chunkCount |->
                   IF id \in Ids(Chunk(entries[t], i[t],
                                       config.max_batch_count))
                   THEN chunkCount[id] + 1 ELSE chunkCount[id]]
            /\ log_group_list' = [log_group_list EXCEPT ![t] =
                   BuildLogGroupList(Chunk(entries[t], i[t],
                                           config.max_batch_count))]
            /\ backoff_ms' = [backoff_ms EXCEPT ![t] =
                                  config.base_retry_backoff_ms]
            /\ attempt' = [attempt EXCEPT ![t] = 0]
            /\ pc' = [pc EXCEPT ![t] = "attempt"]
            /\ UNCHANGED <<op, entries, i>>
       ELSE /\ ReturnFromFlush(t)
            /\ entries' = [entries EXCEPT ![t] = <<>>]
            /\ i' = [i EXCEPT ![t] = 0]
            /\ chunks' = [chunks EXCEPT ![t] = <<>>]
            /\ UNCHANGED <<chunkCount, backoff_ms, attempt, log_group_list>>
    /\ delays' = [delays EXCEPT ![t] = <<>>]
    /\ events' = [events EXCEPT ![t] = <<>>]
    /\ sent' = [sent EXCEPT ![t] = <<>>]
    /\ UNCHANGED <<config, aux, bufVars, lock, condVars, closed, stats, entry,
                   last_err, joinTimedOut, calls, accepted, sinkFailed,
                   overflowed>>

\* _send_chunk returns; the loop of _send_batch advances.
ChunkDone(t) ==
    /\ i' = [i EXCEPT ![t] = @ + config.max_batch_count]
    /\ attempt' = [attempt EXCEPT ![t] = 0]
    /\ backoff_ms' = [backoff_ms EXCEPT ![t] = 0]
    /\ last_err' = [last_err EXCEPT ![t] = "None"]
    /\ log_group_list' = [log_group_list EXCEPT ![t] = <<>>]
    /\ pc' = [pc EXCEPT ![t] = "batch_loop"]

\* put_log_raw succeeds: incr_success(), incr_logs(len(entries)), return.
SinkOk(t) ==
    /\ pc[t] = "attempt"
    /\ PutLogRaw(t, "ok")
    /\ stats' = incr_logs(incr_success(stats), Len(CurrentChunk(t)))
    /\ ChunkDone(t)
    /\ UNCHANGED <<config, aux, bufVars, lock, condVars, closed, op, entry,
                   entries, joinTimedOut, calls, accepted, chunkCount, chunks,
                   delays, sinkFailed, overflowed>>

\* Mutant: every LogException is retried.
Retryable_Always(error_code, resp_status) ==
    \/ error_code \in ErrorCodes
    \/ resp_status >= 500

\* The retry classification of a LogException.
Retryable(error_code, resp_status) ==
    \/ error_code \in {"InternalError", "Timeout", "SpeedQuotaExceed"}
    \/ resp_status >= 500

\* Mutant: one attempt more than retries + 1.
SinkError_OneMore(t) ==
    /\ pc[t] = "attempt"
    /\ \E error_code \in ErrorCodes, resp_status \in Statuses :
         /\ PutLogRaw(t, Reported(error_code, resp_status))
         /\ pc' = [pc EXCEPT ![t] =
                     IF ~Retryable(error_code, resp_status)
                           \/ attempt[t] > config.retries
                     THEN "give_up" ELSE "sleep"]
    /\ last_err' = [last_err EXCEPT ![t] = "LogException"]
    /\ sinkFailed' = TRUE
    /\ UNCHANGED <<config, aux, bufVars, lock, condVars, closed, stats, op,
                   entry, entries, i, attempt, backoff_ms, log_group_list,
                   joinTimedOut, calls, accepted, chunkCount, chunks, delays,
                   overflowed>>

\* put_log_raw raises LogException: break, or go on to the sleep.
SinkError(t) ==
    /\ pc[t] = "attempt"
    /\ \E error_code \in ErrorCodes, resp_status \in Statuses :
         /\ PutLogRaw(t, Reported(error_code, resp_status))
         /\ pc' = [pc EXCEPT ![t] =
                     IF ~Retryable(error_code, resp_status)
                           \/ attempt[t] >= config.retries
                     THEN "give_up" ELSE "sleep"]
    /\ last_err' = [last_err EXCEPT ![t] = "LogException"]
    /\ sinkFailed' = TRUE
    /\ UNCHANGED <<config, aux, bufVars, lock, condVars, closed, stats, op,
                   entry, entries, i, attempt, backoff_ms, log_group_list,
                   joinTimedOut, calls, accepted, chunkCount, chunks, delays,
                   overflowed>>

\* Mutant: any other exception ends the delivery of the chunk at once.
SinkException_NoRetry(t) ==
    /\ pc[t] = "attempt"
    /\ PutLogRaw(t, "exception")
    /\ pc' = [pc EXCEPT ![t] = "give_up"]
    /\ last_err' = [last_err EXCEPT ![t] = "Exception"]
    /\ sinkFailed' = TRUE
    /\ UNCHANGED <<config, aux, bufVars, lock, condVars, closed, stats, op,
                   entry, entries, i, attempt, backoff_ms, log_group_list,
                   joinTimedOut, calls, accepted, chunkCount, chunks, delays,
                   overflowed>>

\* put_log_raw raises any other exception: break, or go on to the sleep.
SinkException(t) ==
    /\ pc[t] = "attempt"
    /\ PutLogRaw(t, "exception")
    /\ pc' = [pc EXCEPT ![t] =
                IF attempt[t] >= config.retries THEN "give_up" ELSE "sleep"]
    /\ last_err' = [last_err EXCEPT ![t] = "Exception"]
    /\ sinkFailed' = TRUE
    /\ UNCHANGED <<config, aux, bufVars, lock, condVars, closed, stats, op,
                   entry, entries, i, attempt, backoff_ms, log_group_list,
                   joinTimedOut, calls, accepted, chunkCount, chunks, delays,
                   overflowed>>

\* The backoff after one more failure, as the code computes it.
NextBackoff(b) == Min(b * 2, config.max_retry_backoff_ms)

\* time.sleep(backoff_ms / 1000.0), then the backoff doubles and the loop
\* moves to the next attempt.
Sleep(t) ==
    /\ pc[t] = "sleep"
    /\ delays' = [delays EXCEPT ![t] = Append(@, backoff_ms[t])]
    /\ backoff_ms' = [backoff_ms EXCEPT ![t] = NextBackoff(@)]
    /\ attempt' = [attempt EXCEPT ![t] = @ + 1]
    /\ pc' = [pc EXCEPT ![t] = "attempt"]
    /\ events' = [events EXCEPT ![t] = Append(@, "sleep")]
    /\ age' = IF buffer = <<>> THEN age ELSE age + backoff_ms[t]
    /\ UNCHANGED <<config, expired, finalDrain, preClose, bufVars, lock,
                   condVars, closed, stats, op, entry, entries, i, last_err,
                   log_group_list, joinTimedOut, calls, accepted, chunkCount,
                   chunks, sinkFailed, sent, overflowed>>

\* Mutant: a failed chunk ends the whole _send_batch.
GiveUp_Abort(t) ==
    /\ pc[t] = "give_up"
    /\ stats' = incr_fail(stats)
    /\ i' = [i EXCEPT ![t] = Len(entries[t])]
    /\ attempt' = [attempt EXCEPT ![t] = 0]
    /\ backoff_ms' = [backoff_ms EXCEPT ![t] = 0]
    /\ last_err' = [last_err EXCEPT ![t] = "None"]
    /\ log_group_list' = [log_group_list EXCEPT ![t] = <<>>]
    /\ pc' = [pc EXCEPT ![t] = "batch_loop"]
    /\ UNCHANGED <<config, aux, bufVars, lock, condVars, closed, op, entry,
                   entries, joinTimedOut, calls, accepted, dispHist,
                   overflowed>>

\* After the attempt loop: incr_fail() and the error log.
GiveUp(t) ==
    /\ pc[t] = "give_up"
    /\ stats' = incr_fail(stats)
    /\ ChunkDone(t)
    /\ UNCHANGED <<config, aux, bufVars, lock, condVars, closed, op, entry,
                   entries, joinTimedOut, calls, accepted, dispHist,
                   overflowed>>

\* ------------------------------------------------------------------------
\* _flush_loop()
\* ------------------------------------------------------------------------
\* while not self._closed
SchedLoop ==
    /\ pc[Sched] = "loop"
    /\ pc' = [pc EXCEPT ![Sched] = IF closed THEN "done" ELSE "wait_lock"]
    /\ UNCHANGED <<config, aux, bufVars, lock, condVars, closed, stats, op,
                   entry, disp, joinTimedOut, calls, accepted, dispHist,
                   overflowed>>

\* with self._not_empty: wait(timeout=linger_sec) starts.
SchedWait ==
    /\ pc[Sched] = "wait_lock"
    /\ lock = Free
    /\ not_empty' = not_empty \cup {Sched}
    /\ pc' = [pc EXCEPT ![Sched] = "wait"]
    /\ UNCHANGED <<config, aux, bufVars, lock, not_full, closed, stats, op,
                   entry, disp, joinTimedOut, calls, accepted, dispHist,
                   overflowed>>

\* The linger timeout elapses.
SchedTimeout ==
    /\ pc[Sched] = "wait"
    /\ Sched \in not_empty
    /\ not_empty' = not_empty \ {Sched}
    /\ age' = IF buffer = <<>> THEN age ELSE age + config.linger_ms
    /\ UNCHANGED <<config, expired, finalDrain, preClose, bufVars, lock,
                   not_full, closed, stats, pc, op, entry, disp, joinTimedOut,
                   calls, accepted, dispHist, overflowed>>

\* wait() returns after re-acquiring the lock; the with block ends.
SchedWake ==
    /\ pc[Sched] = "wait"
    /\ Sched \notin not_empty
    /\ lock = Free
    /\ pc' = [pc EXCEPT ![Sched] = "drain"]
    /\ UNCHANGED <<config, aux, bufVars, lock, condVars, closed, stats, op,
                   entry, disp, joinTimedOut, calls, accepted, dispHist,
                   overflowed>>

\* ------------------------------------------------------------------------
\* close()
\* ------------------------------------------------------------------------
\* Mutant: close() without its closed check.
CloseCall_NoCheck(t) ==
    /\ pc[t] = "idle"
    /\ closeCalls < MaxCloses
    /\ closeCalls' = closeCalls + 1
    /\ reclosed' = (reclosed \/ closeReturns >= 1)
    /\ pc' = [pc EXCEPT ![t] = "close_set"]
    /\ op' = [op EXCEPT ![t] = "close"]
    /\ preClose' = [preClose EXCEPT ![t] = accepted \cap Ids(buffer)]
    /\ UNCHANGED <<config, expired, finalDrain, age, bufVars, lock, condVars,
                   closed, stats, entry, disp, joinTimedOut, nsends, nflush,
                   closeReturns, lateSend, accepted, dispHist, overflowed>>

\* close() is called: `if self._closed: return`.
CloseCall(t) ==
    /\ pc[t] = "idle"
    /\ closeCalls < MaxCloses
    /\ closeCalls' = closeCalls + 1
    /\ reclosed' = (reclosed \/ closeReturns >= 1)
    /\ IF closed
       THEN /\ closeReturns' = closeReturns + 1
            /\ UNCHANGED <<pc, op>>
       ELSE /\ pc' = [pc EXCEPT ![t] = "close_set"]
            /\ op' = [op EXCEPT ![t] = "close"]
            /\ UNCHANGED closeReturns
    /\ preClose' = [preClose EXCEPT ![t] =
                     IF closed THEN @ ELSE accepted \cap Ids(buffer)]
    /\ UNCHANGED <<config, expired, finalDrain, age, bufVars, lock, condVars,
                   closed, stats, entry, disp, joinTimedOut, nsends, nflush,
                   lateSend, accepted, dispHist, overflowed>>

\* self._closed = True
CloseSet(t) ==
    /\ pc[t] = "close_set"
    /\ closed' = TRUE
    /\ pc' = [pc EXCEPT ![t] = "close_notify"]
    /\ UNCHANGED <<config, aux, bufVars, lock, condVars, stats, op, entry,
                   disp, joinTimedOut, calls, accepted, dispHist, overflowed>>

\* with self._not_empty: notify()
CloseNotify(t) ==
    /\ pc[t] = "close_notify"
    /\ lock = Free
    /\ not_empty' \in Notify(not_empty)
    /\ pc' = [pc EXCEPT ![t] = "close_join"]
    /\ UNCHANGED <<config, aux, bufVars, lock, not_full, closed, stats, op,
                   entry, disp, joinTimedOut, calls, accepted, dispHist,
                   overflowed>>

\* Mutant: join() returns without waiting for the flush thread.
CloseJoin_NoWait(t) ==
    /\ pc[t] = "close_join"
    /\ joinTimedOut' = [joinTimedOut EXCEPT ![t] = FALSE]
    /\ pc' = [pc EXCEPT ![t] = "drain"]
    /\ UNCHANGED <<config, aux, bufVars, lock, condVars, closed, stats, op,
                   entry, disp, calls, accepted, dispHist, overflowed>>

\* join(): the flush thread has terminated.
CloseJoin(t) ==
    /\ pc[t] = "close_join"
    /\ pc[Sched] = "done"
    /\ joinTimedOut' = [joinTimedOut EXCEPT ![t] = FALSE]
    /\ pc' = [pc EXCEPT ![t] = "drain"]
    /\ UNCHANGED <<config, aux, bufVars, lock, condVars, closed, stats, op,
                   entry, disp, calls, accepted, dispHist, overflowed>>

\* join(timeout): the timeout elapses while the flush thread is alive.
CloseJoinTimeout(t) ==
    /\ pc[t] = "close_join"
    /\ pc[Sched] # "done"
    /\ joinTimedOut' = [joinTimedOut EXCEPT ![t] = TRUE]
    /\ pc' = [pc EXCEPT ![t] = "drain"]
    /\ UNCHANGED <<config, aux, bufVars, lock, condVars, closed, stats, op,
                   entry, disp, calls, accepted, dispHist, overflowed>>

\* The final stats snapshot is logged and close() returns.
CloseStats(t) ==
    /\ pc[t] = "close_stats"
    /\ closeReturns' = closeReturns + 1
    /\ joinTimedOut' = [joinTimedOut EXCEPT ![t] = FALSE]
    /\ pc' = [pc EXCEPT ![t] = "idle"]
    /\ op' = [op EXCEPT ![t] = "none"]
    /\ preClose' = [preClose EXCEPT ![t] = {}]
    /\ UNCHANGED <<config, expired, finalDrain, age, bufVars, lock, condVars,
                   closed, stats, entry, disp, nsends, nflush, closeCalls,
                   reclosed, lateSend, accepted, dispHist, overflowed>>

\* ------------------------------------------------------------------------
\* Specifications
\* ------------------------------------------------------------------------
Next ==
    \/ \E t \in Callers :
         \/ SendCall(t)
         \/ SendAcquire(t)
         \/ SendBlockTimeout(t)
         \/ SendBlockWait(t)
         \/ SendBlockAdmit(t)
         \/ SendWaitTimeout(t)
         \/ SendWake(t)
         \/ SendSize(t)
         \/ FlushCall(t)
         \/ CloseCall(t)
         \/ CloseSet(t)
         \/ CloseNotify(t)
         \/ CloseJoin(t)
         \/ CloseJoinTimeout(t)
         \/ CloseStats(t)
    \/ \E t \in Threads :
         \/ DrainTake(t)
         \/ DrainReset(t)
         \/ DrainNotify(t)
         \/ BatchLoop(t)
         \/ SinkOk(t)
         \/ SinkError(t)
         \/ SinkException(t)
         \/ GiveUp(t)
    \/ SchedLoop
    \/ SchedWait
    \/ SchedTimeout
    \/ SchedWake

Spec == Init /\ [][Next]_vars

\* The steps a caller takes once inside send(), flush() or close(), and the
\* steps of the flush thread.
CallerStep(t) ==
    \/ SendAcquire(t)
    \/ SendBlockTimeout(t)
    \/ SendBlockWait(t)
    \/ SendBlockAdmit(t)
    \/ SendWaitTimeout(t)
    \/ SendWake(t)
    \/ SendSize(t)
    \/ CloseSet(t)
    \/ CloseNotify(t)
    \/ CloseJoin(t)
    \/ CloseJoinTimeout(t)
    \/ CloseStats(t)
    \/ DrainTake(t)
    \/ DrainReset(t)
    \/ DrainNotify(t)
    \/ BatchLoop(t)
    \/ SinkOk(t)
    \/ SinkError(t)
    \/ SinkException(t)
    \/ GiveUp(t)

SchedStep ==
    \/ SchedLoop
    \/ SchedWait
    \/ SchedTimeout
    \/ SchedWake
    \/ DrainTake(Sched)
    \/ DrainReset(Sched)
    \/ DrainNotify(Sched)
    \/ BatchLoop(Sched)
    \/ SinkOk(Sched)
    \/ SinkError(Sched)
    \/ SinkException(Sched)
    \/ GiveUp(Sched)

\* Every thread that can take a step eventually takes one: the interpreter
\* schedules every runnable thread, timed waits time out, the Sink call
\* returns, and the lock is held only for a bounded number of steps.
Fairness ==
    /\ \A t \in Callers : WF_vars(CallerStep(t))
    /\ WF_vars(SchedStep)

\* The producer in blocking mode, with fair scheduling.
InitBlocking == Init /\ config.max_block_sec > 0

\* send() from every caller, close() from every caller, and the flush
\* thread.
NextBlocking ==
    \/ \E t \in Callers :
         \/ SendCall(t)
         \/ CloseCall(t)
         \/ CallerStep(t)
    \/ SchedStep

SpecBlocking == InitBlocking /\ [][NextBlocking]_vars /\ Fairness

\* The producer with time-triggered drains only: no threshold and no
\* capacity limit within reach of the sends, failing deliveries retried with
\* backoff, callers that only send.
LingerConfigs ==
    { MakeConfig(2 * MaxSends, 0, 2 * MaxSends + 1, MaxSends + 1, Linger,
                 r, 1, MaxBackoff) : r \in 0..MaxRetries }

InitLinger ==
    /\ InitCommon
    /\ config \in LingerConfigs
    /\ pc = [t \in Threads |-> IF t = Sched THEN "loop" ELSE "idle"]
    /\ op = [t \in Threads |-> "none"]
    /\ entries = [t \in Threads |-> <<>>]
    /\ nflush = 0
    /\ nsends = 0
    /\ accepted = {}
    /\ chunkCount = [id \in 1..MaxSends |-> 0]

NextLinger ==
    \/ \E t \in Callers :
         \/ SendCall(t)
         \/ SendAcquire(t)
         \/ SendSize(t)
    \/ SchedStep
    \/ Sleep(Sched)

SpecLinger == InitLinger /\ [][NextLinger]_vars

\* The producer with a failing Sink and chunks of one entry: a drain of two
\* entries is dispatched as two chunks, each of which may fail; callers only
\* send, and every thread is scheduled fairly.
FaultyConfigs ==
    { MakeConfig(2 * MaxSends, 0, 2 * MaxSends + 1, 1, Linger, r, 1,
                 MaxBackoff) : r \in {0, 1} }

InitFaulty ==
    /\ InitCommon
    /\ config \in FaultyConfigs
    /\ pc = [t \in Threads |-> IF t = Sched THEN "loop" ELSE "idle"]
    /\ op = [t \in Threads |-> "none"]
    /\ entries = [t \in Threads |-> <<>>]
    /\ nflush = 0
    /\ nsends = 0
    /\ accepted = {}
    /\ chunkCount = [id \in 1..MaxSends |-> 0]

SpecFaulty ==
    /\ InitFaulty
    /\ [][NextLinger]_vars
    /\ \A t \in Callers : WF_vars(SendAcquire(t) \/ SendSize(t))
    /\ WF_vars(SchedStep \/ Sleep(Sched))

\* The dispatcher on its own: a caller's flush() has just drained n entries
\* and enters _send_batch, for every batch length, chunk size, retry count
\* and backoff setting within the bounds.
Flusher == CHOOSE t \in Callers : TRUE

DispatchConfigs ==
    { MakeConfig(MaxBatchLen, 0, MaxBatchLen, m, Linger, r, base, maxb) :
        m \in 1..MaxChunk, r \in 0..MaxRetries,
        base \in 0..MaxBackoff, maxb \in 0..MaxBackoff }

InitDispatch ==
    /\ InitCommon
    /\ config \in DispatchConfigs
    /\ \E n \in 1..MaxBatchLen :
         /\ entries = [t \in Threads |->
                IF t = Flusher THEN [k \in 1..n |-> [id |-> k, size |-> 1]]
                ELSE <<>>]
         /\ nsends = n
         /\ accepted = 1..n
         /\ chunkCount = [id \in 1..n |-> 0]
    /\ pc = [t \in Threads |->
             IF t = Sched THEN "loop"
             ELSE IF t = Flusher THEN "batch_loop" ELSE "idle"]
    /\ op = [t \in Threads |-> IF t = Flusher THEN "flush" ELSE "none"]
    /\ nflush = 1

NextDispatch ==
    \E t \in Callers :
       \/ BatchLoop(t)
       \/ SinkOk(t)
       \/ SinkError(t)
       \/ SinkException(t)
       \/ Sleep(t)
       \/ GiveUp(t)

SpecDispatch == InitDispatch /\ [][NextDispatch]_vars

\* ------------------------------------------------------------------------
\* Properties
\* ------------------------------------------------------------------------
Capacity == config.total_size_bytes

\* Every call has returned and the flush thread has exited.
Quiescent ==
    /\ \A t \in Callers : pc[t] = "idle"
    /\ pc[Sched] = "done"

\* C1: sends issued before the single close(), none overflowing, Sink never
\* failing: once close() has returned (every call has returned, the flush
\* thread has exited), log_count + drop_count equals the number of send()
\* calls issued.
C1_SendsAccounted ==
    ( /\ closeCalls = 1
      /\ closeReturns = 1
      /\ nflush = 0
      /\ ~lateSend
      /\ ~overflowed
      /\ ~sinkFailed
      /\ Quiescent )
    => stats.log_count + stats.drop_count = nsends

\* C2: no entry is ever placed in two chunks, and once close() has returned
\* (every call has returned, the flush thread has exited) every entry for
\* which send() returned True is in exactly one chunk.
C2_ExactlyOneChunk ==
    /\ \A id \in DOMAIN chunkCount : chunkCount[id] <= 1
    /\ (closeReturns >= 1 /\ Quiescent)
         => \A id \in accepted : chunkCount[id] = 1

\* A send() in non-blocking mode at its capacity check.
AtCapacityCheck(t) ==
    /\ config.max_block_sec = 0
    /\ pc[t] = "send_lock"
    /\ pc'[t] # "send_lock"

\* C3 (state part): with block duration zero, outside the critical
\* sections total_bytes never exceeds the capacity.
C3_WithinCapacity ==
    (config.max_block_sec = 0 /\ lock = Free) => buffer_size <= Capacity

\* C3 (step part): an overflowing send() returns False, adds exactly 1 to
\* drop_count and leaves the buffer alone; any other send(), one reaching
\* the capacity exactly included, appends its entry.
C3_AdmitOrDrop ==
    \A t \in Callers :
       AtCapacityCheck(t) =>
          IF buffer_size + entry[t].size > Capacity
          THEN /\ pc'[t] = "idle"
               /\ accepted' = accepted
               /\ stats' = [stats EXCEPT !.drop_count = @ + 1]
               /\ UNCHANGED <<buffer, buffer_size>>
          ELSE /\ buffer' = Append(buffer, entry[t])
               /\ stats' = stats

\* C3: non-blocking admission keeps total_bytes within the capacity and
\* drops exactly the entries that would overflow it.
C3_NonBlockingAdmission == []C3_WithinCapacity /\ [][C3_AdmitOrDrop]_vars

\* C3 witness: an entry filled the buffer exactly to the capacity and the
\* next send() was dropped, the buffer still holding the admitted bytes.
C3_Witness ==
    /\ config.max_block_sec = 0
    /\ lock = Free
    /\ nsends >= 2
    /\ buffer # <<>>
    /\ buffer_size = Capacity
    /\ stats.drop_count = 1
    /\ Cardinality(accepted) = nsends - 1
    /\ \A t \in Callers : pc[t] = "idle"

\* C4: once closed is true no entry is appended to the buffer.
C4_NoAppendOnceClosed == [][closed => Len(buffer') <= Len(buffer)]_vars

\* C5: a send() called on a closed producer returns False at once, leaves
\* the buffer unchanged and adds 1 to drop_count.
C5_ClosedSendCountsDrop ==
    [][(nsends' = nsends + 1 /\ closed) =>
          /\ pc' = pc
          /\ accepted' = accepted
          /\ UNCHANGED <<buffer, buffer_size>>
          /\ stats'.drop_count = stats.drop_count + 1]_vars

\* C6: when an admission has brought the buffer to the byte or the count
\* threshold, the flush thread is not left in a wait that only the linger
\* timeout (or a later, unrelated notify) can end.
C6_ThresholdWakesScheduler ==
    (lock = Free /\ ThresholdReached(buffer_size, Len(buffer)))
       => ~(pc[Sched] = "wait" /\ Sched \in not_empty)

\* A thread is inside _send_batch.
InFlight(t) == pc[t] \in {"batch_loop", "attempt", "sleep", "give_up"}

\* C7 as stated: at most one _send_batch is in flight at any time.
C7_OneDeliveryPerProducer ==
    Cardinality({ t \in Threads : InFlight(t) }) <= 1

\* C7 as amended: deliveries are one per thread. A caller delivers only
\* inside flush() or close(); a close() whose join saw the flush thread
\* terminated never overlaps a delivery of the flush thread; deliveries
\* that do overlap never carry the same entry.
C7_OneDeliveryPerThread ==
    /\ \A t \in Callers : InFlight(t) => op[t] \in {"flush", "close"}
    /\ \A t \in Callers :
          (InFlight(t) /\ op[t] = "close" /\ ~joinTimedOut[t])
             => ~InFlight(Sched)
    /\ \A t1, t2 \in Threads :
          (t1 # t2 /\ InFlight(t1) /\ InFlight(t2))
             => Ids(entries[t1]) \cap Ids(entries[t2]) = {}

\* C7 witness: the flush thread and a caller deliver at the same time.
C7_Witness ==
    /\ pc[Sched] = "attempt"
    /\ \E t \in Callers : pc[t] = "attempt" /\ op[t] = "flush"

\* C8: a close() called after a close() has returned returns at once and
\* changes nothing: no notify, no join, no drain, no dispatch, no counter.
C8_SecondCloseNoOp ==
    [][(closeCalls' = closeCalls + 1 /\ closeReturns >= 1) =>
          /\ closeReturns' = closeReturns + 1
          /\ UNCHANGED <<buffer, buffer_size, lock, not_empty, not_full,
                         closed, stats, pc, op, entries, chunkCount,
                         accepted>>]_vars

\* C8 witness: two close() calls have returned, one after the other.
C8_Witness ==
    /\ reclosed
    /\ closeCalls = 2
    /\ closeReturns = 2
    /\ closed

RECURSIVE Concat(_)
Concat(ss) == IF ss = <<>> THEN <<>> ELSE Head(ss) \o Concat(Tail(ss))

CeilDiv(n, m) == (n + m - 1) \div m

\* The loop of _send_batch has run to its end.
BatchFinished(t) == pc[t] = "batch_loop" /\ i[t] >= Len(entries[t])

\* C9: a batch of n entries is dispatched as ceil(n/m) chunks of at most m
\* entries, all but the last of exactly m, whose concatenation in delivery
\* order is the batch.
C9_Chunking ==
    \A t \in Threads :
       /\ \A k \in DOMAIN chunks[t] :
             /\ Len(chunks[t][k]) <= config.max_batch_count
             /\ k < Len(chunks[t])
                   => Len(chunks[t][k]) = config.max_batch_count
       /\ BatchFinished(t) =>
             /\ Len(chunks[t]) =
                   CeilDiv(Len(entries[t]), config.max_batch_count)
             /\ Concat(chunks[t]) = entries[t]

\* C9 witness: m = 2, n = 5 gave chunks of sizes 2, 2, 1.
C9_Witness ==
    \E t \in Threads :
       /\ BatchFinished(t)
       /\ config.max_batch_count = 2
       /\ Len(entries[t]) = 5
       /\ [k \in DOMAIN chunks[t] |-> Len(chunks[t][k])] = <<2, 2, 1>>

RECURSIVE Pow2(_)
Pow2(k) == IF k = 0 THEN 1 ELSE 2 * Pow2(k - 1)

\* C10: the delay slept before retry k is min(base * 2^k, max_backoff); the
\* delays never decrease and never exceed max_backoff.
C10_BackoffCapped ==
    \A t \in Threads :
       \A k \in DOMAIN delays[t] :
          /\ delays[t][k] =
                Min(config.base_retry_backoff_ms * Pow2(k - 1),
                    config.max_retry_backoff_ms)
          /\ delays[t][k] <= config.max_retry_backoff_ms
          /\ k > 1 => delays[t][k - 1] <= delays[t][k]

\* The outcomes of the put_log_raw calls of the current chunk, in order.
Outcomes(t) == SelectSeq(events[t], LAMBDA e : e # "sleep")

\* Every put_log_raw call of the current chunk failed and was retried or
\* ran out of attempts: no success and no non-retryable LogException.
OnlyRetryableFailures(t) ==
    \A k \in DOMAIN events[t] : events[t][k] \notin {"ok", "fatal"}

\* C11 (state part): at most retries + 1 Sink calls per chunk, the first
\* with no sleep before it; when all of them failed retryably and the
\* attempt loop has ended, there were exactly retries + 1 calls with a sleep
\* between consecutive calls only, none after the last.
C11_Attempts ==
    \A t \in Threads :
       /\ Len(Outcomes(t)) <= config.retries + 1
       /\ Len(sent[t]) = Len(Outcomes(t))
       /\ events[t] # <<>> => events[t][1] # "sleep"
       /\ (pc[t] = "give_up" /\ OnlyRetryableFailures(t)) =>
             /\ Len(Outcomes(t)) = config.retries + 1
             /\ Len(events[t]) = 2 * config.retries + 1
             /\ \A k \in DOMAIN events[t] :
                   (events[t][k] = "sleep") <=> (k % 2 = 0)

\* C11 (step part): the chunk whose attempts all failed is recorded as
\* failed: send_fail + 1, nothing else.
C11_RecordedFailed ==
    \A t \in Threads :
       (pc[t] = "give_up" /\ pc'[t] # "give_up") =>
          /\ stats' = [stats EXCEPT !.send_fail = @ + 1]
          /\ UNCHANGED <<events, sent, delays>>

\* C11: per chunk the Sink is called at most retries + 1 times; when every
\* attempt fails retryably it is called exactly retries + 1 times, with no
\* delay before the first attempt and none after the last, and the chunk is
\* recorded as failed (send_fail + 1, log_count unchanged).
C11_RetryBudget == []C11_Attempts /\ [][C11_RecordedFailed]_vars

\* C11 witness: retries = 2, three retryable failures with two sleeps
\* between them, then the chunk was recorded as failed.
C11_Witness ==
    \E t \in Threads :
       /\ config.retries = 2
       /\ events[t] = <<"retryable", "sleep", "retryable", "sleep",
                        "retryable">>
       /\ pc[t] = "batch_loop"
       /\ stats.send_fail = 1
       /\ stats.log_count = 0

Last(sq) == sq[Len(sq)]

\* C12 (state part): a non-retryable LogException is the last event of its
\* chunk: no sleep and no Sink call follows it.
C12_FatalIsLast ==
    \A t \in Threads :
       \A k \in DOMAIN events[t] :
          events[t][k] = "fatal" =>
             /\ k = Len(events[t])
             /\ pc[t] \in {"give_up", "batch_loop"}

\* C12 (step part): the step after a non-retryable LogException records the
\* chunk as failed: send_fail + 1, send_success and log_count unchanged.
C12_FatalRecorded ==
    \A t \in Threads :
       (pc[t] = "give_up" /\ Last(events[t]) = "fatal"
           /\ <<pc[t], events[t], sent[t]>>' # <<pc[t], events[t], sent[t]>>)
          => /\ pc'[t] = "batch_loop"
             /\ stats' = [stats EXCEPT !.send_fail = @ + 1]
             /\ UNCHANGED <<events, sent, delays>>

\* C12: a non-retryable sink error ends the delivery of its chunk at that
\* attempt, with no sleep and no further Sink call; send_fail grows by
\* exactly 1 and send_success and log_count are unchanged.
C12_NonRetryableStops == []C12_FatalIsLast /\ [][C12_FatalRecorded]_vars

\* C12 witness: with the largest retry count, a non-retryable error on the
\* first attempt ended the chunk after one Sink call and no sleep.
C12_Witness ==
    \E t \in Threads :
       /\ config.retries = MaxRetries
       /\ events[t] = <<"fatal">>
       /\ Len(sent[t]) = 1
       /\ delays[t] = <<>>
       /\ pc[t] = "batch_loop"
       /\ stats = [ZeroStats EXCEPT !.send_fail = 1]

\* C13 (step part): failed attempts and sleeps leave the counters alone,
\* and the successful attempt adds 1 to send_success and the chunk's entry
\* count to log_count, send_fail unchanged.
C13_Recorded ==
    \A t \in Threads :
       /\ (pc[t] \in {"attempt", "sleep"}
              /\ pc'[t] \in {"attempt", "sleep", "give_up"})
             => stats' = stats
       /\ (pc[t] = "attempt" /\ pc'[t] = "batch_loop") =>
             /\ Last(events'[t]) = "ok"
             /\ stats' = [stats EXCEPT
                             !.send_success = @ + 1,
                             !.log_count = @ + Len(CurrentChunk(t))]

\* C13 (state part): a success is the last event of its chunk, so a chunk
\* is recorded at most once.
C13_OkIsLast ==
    \A t \in Threads :
       \A k \in DOMAIN events[t] :
          events[t][k] = "ok" => (k = Len(events[t]) /\ pc[t] = "batch_loop")

\* C13: a chunk that fails retryably on its first j <= retries attempts and
\* then succeeds is recorded as exactly one success: send_success + 1,
\* log_count + the chunk's entry count, send_fail unchanged.
C13_SuccessAfterRetries == []C13_OkIsLast /\ [][C13_Recorded]_vars

\* C13 witness: two retryable failures, then success, for a first chunk of
\* two entries.
C13_Witness ==
    \E t \in Threads :
       /\ events[t] = <<"retryable", "sleep", "retryable", "sleep", "ok">>
       /\ Len(chunks[t]) = 1
       /\ Len(CurrentChunk(t)) = 2
       /\ stats = [ZeroStats EXCEPT !.send_success = 1, !.log_count = 2]

\* C14 (state part): in blocking mode too, outside the critical sections
\* total_bytes never exceeds the capacity.
C14_WithinCapacity ==
    (config.max_block_sec > 0 /\ lock = Free) => buffer_size <= Capacity

\* C14 (step part): an overflowing send() enters the blocking loop without
\* a drop; every pass of the loop re-checks the capacity condition; while
\* the entry overflows the send() waits again, or, the deadline passed,
\* returns False with drop_count + 1 and nothing appended; as soon as the
\* entry fits it is appended; a woken waiter goes back to the check.
C14_BlockStep ==
    \A t \in Callers :
       /\ (config.max_block_sec > 0 /\ pc[t] = "send_lock"
              /\ pc'[t] # "send_lock" /\ Overflows(entry[t]))
             => /\ pc'[t] = "send_block"
                /\ UNCHANGED <<buffer, buffer_size, stats, accepted>>
       /\ (pc[t] = "send_block" /\ pc'[t] # "send_block") =>
             IF Overflows(entry[t])
             THEN /\ UNCHANGED <<buffer, buffer_size, accepted>>
                  /\ \/ /\ ~expired[t]
                        /\ pc'[t] = "send_wait"
                        /\ t \in not_full'
                        /\ stats' = stats
                     \/ /\ pc'[t] = "idle"
                        /\ stats' = [stats EXCEPT !.drop_count = @ + 1]
             ELSE /\ pc'[t] = "send_size"
                  /\ buffer' = Append(buffer, entry[t])
                  /\ buffer_size + entry[t].size <= Capacity
                  /\ stats' = stats
       /\ (pc[t] = "send_wait" /\ pc'[t] # "send_wait") =>
             /\ pc'[t] = "send_block"
             /\ UNCHANGED <<buffer, buffer_size, stats, accepted>>
       /\ (pc[t] = "send_size" /\ pc'[t] # "send_size") =>
             /\ pc'[t] = "idle"
             /\ accepted' = accepted \cup {entry[t].id}

\* C14 (liveness part): a send() in the blocking loop eventually returns.
C14_Unblocks ==
    \A t \in Callers :
       (pc[t] \in {"send_block", "send_wait"}) ~> (pc[t] = "idle")

\* C14: with a non-zero block duration an overflowing send() blocks,
\* re-checks the capacity whenever woken, is admitted within the capacity
\* once a drain has freed the space, and otherwise returns False with
\* drop_count + 1 and nothing appended when the block duration has elapsed;
\* it never stays blocked forever.
C14_BlockingAdmission ==
    /\ []C14_WithinCapacity
    /\ [][C14_BlockStep]_vars
    /\ C14_Unblocks

\* C14 witness: a send() found the buffer full, blocked, and was admitted
\* after a drain: every send() issued returned True and nothing was dropped.
C14_Witness ==
    /\ config.max_block_sec > 0
    /\ overflowed
    /\ nsends >= 2
    /\ accepted = 1..nsends
    /\ stats.drop_count = 0
    /\ \A t \in Callers : pc[t] = "idle"

\* C15: the flush thread exits only after a drain it began when closed was
\* already true.
C15_FinalDrainBeforeExit == pc[Sched] = "done" => finalDrain

\* C16 (wait, then drain): whether the join ended by termination of the
\* flush thread or by timeout, close() goes on to a drain, and it returns
\* only from that drain-and-dispatch.
C16_DrainAfterJoin ==
    \A t \in Callers :
       /\ (pc[t] = "close_join" /\ pc'[t] # "close_join") => pc'[t] = "drain"
       /\ (pc[t] # "close_stats" /\ pc'[t] = "close_stats") =>
             /\ op[t] = "close"
             /\ pc[t] \in {"drain", "batch_loop"}

\* C16 (closed last): the state becomes closed only when close() has done
\* its drain-and-dispatch.
C16_ClosedAfterDrain ==
    (~closed /\ closed') => \E t \in Callers : pc[t] = "close_stats"

\* C16 (entries drained): when close() returns, no entry that was admitted
\* before that close() was called is still in the buffer.
C16_DrainedAtReturn ==
    \A t \in Callers :
       (pc[t] = "close_stats" /\ pc'[t] = "idle") =>
          preClose[t] \cap Ids(buffer) = {}

\* C16: after its bounded wait close() performs one more drain-and-dispatch,
\* only then does the state become closed, and at its return every entry
\* admitted before its call has been drained from the buffer.
C16_CloseDrainsThenCloses ==
    [][C16_DrainAfterJoin /\ C16_ClosedAfterDrain /\ C16_DrainedAtReturn]_vars

RECURSIVE SumSizes(_)
SumSizes(es) == IF es = <<>> THEN 0 ELSE Head(es).size + SumSizes(Tail(es))

\* C18: whenever no thread holds the buffer lock, the byte counter is the
\* sum of the sizes of the buffered entries.
C18_ByteCounter == lock = Free => buffer_size = SumSizes(buffer)

\* C18 witness: two entries are buffered and the lock is free.
C18_Witness ==
    /\ lock = Free
    /\ Len(buffer) = 2
    /\ buffer_size = 2
    /\ \A t \in Callers : pc[t] = "idle"

\* C19 (state part): between taking the list and resetting the counter the
\* drain holds the lock and the buffer is empty; a drained batch shares no
\* entry with the buffer or with another drained batch.
C19_Atomic ==
    /\ \A t \in Threads :
          pc[t] = "drain_reset" => (lock = t /\ buffer = <<>>)
    /\ \A t \in Threads : Ids(entries[t]) \cap Ids(buffer) = {}
    /\ \A t1, t2 \in Threads :
          t1 # t2 => Ids(entries[t1]) \cap Ids(entries[t2]) = {}

\* C19 (step part): a drain of a non-empty buffer returns the whole buffer
\* in order and leaves it empty with total_bytes 0, then wakes every sender
\* waiting on capacity; a drain of an empty buffer changes nothing, and its
\* caller goes on without a Sink call or a counter change.
C19_DrainStep ==
    \A t \in Threads :
       /\ (pc[t] = "drain" /\ pc'[t] # "drain") =>
             IF buffer = <<>>
             THEN /\ pc'[t] = AfterFlush(t)
                  /\ UNCHANGED <<buffer, buffer_size, lock, not_empty,
                                 not_full, closed, stats, entries, chunks,
                                 chunkCount, sent, accepted>>
             ELSE /\ entries'[t] = buffer
                  /\ buffer' = <<>>
                  /\ pc'[t] = "drain_reset"
       /\ (pc[t] = "drain_reset" /\ pc'[t] # "drain_reset") =>
             /\ buffer' = <<>>
             /\ buffer_size' = 0
             /\ lock' = Free
             /\ entries'[t] = entries[t]
       /\ (pc[t] = "drain_notify" /\ pc'[t] # "drain_notify") =>
             /\ not_full' = {}
             /\ pc'[t] = "batch_loop"
             /\ entries'[t] = entries[t]
             /\ UNCHANGED <<buffer, buffer_size, stats>>

C17_DrainedWithinLinger ==
    (lock = Free /\ ~ThresholdReached(buffer_size, Len(buffer)))
       => age <= config.linger_ms

\* C20: every put_log_raw call of a chunk carries the same payload, the
\* logs of exactly the chunk's entries in the chunk's order, and none of it
\* is an entry now in the buffer.
C20_SamePayload ==
    \A t \in Threads :
       \A k \in DOMAIN sent[t] :
          /\ sent[t][k] = sent[t][1]
          /\ sent[t][k] =
                [j \in DOMAIN CurrentChunk(t) |-> CurrentChunk(t)[j].id]
          /\ { sent[t][k][j] : j \in DOMAIN sent[t][k] } \cap Ids(buffer)
                = {}

\* C20 witness: the flush thread has called the Sink three times for one
\* chunk while an entry admitted in the meantime sits in the buffer.
C20_Witness ==
    /\ Len(sent[Sched]) = 3
    /\ pc[Sched] \in {"sleep", "attempt", "give_up"}
    /\ buffer # <<>>
    /\ lock = Free

\* C21 (step part): a Sink call that fails with a retryable LogException or
\* with any other exception is followed by the same thing: while fewer than
\* retries + 1 calls have been made, a sleep of the current backoff, which
\* then doubles up to max_backoff, and another attempt; otherwise the end of
\* the attempts. No counter changes until the chunk is recorded as failed.
C21_FailureStep ==
    \A t \in Threads :
       /\ (pc[t] = "attempt" /\ events'[t] # events[t]
              /\ Last(events'[t]) \in {"exception", "retryable"})
             => /\ pc'[t] = IF Len(sent[t]) < config.retries
                            THEN "sleep" ELSE "give_up"
                /\ UNCHANGED <<stats, backoff_ms, delays>>
       /\ (pc[t] = "sleep" /\ pc'[t] # "sleep") =>
             /\ pc'[t] = "attempt"
             /\ delays'[t] = Append(delays[t], backoff_ms[t])
             /\ backoff_ms'[t] =
                   Min(2 * backoff_ms[t], config.max_retry_backoff_ms)
             /\ stats' = stats
       /\ (pc[t] = "give_up" /\ pc'[t] # "give_up") =>
             stats' = [stats EXCEPT !.send_fail = @ + 1]

\* C21 (state part): the attempts end on a non-LogException only with the
\* (retries + 1)-th Sink call.
C21_ExceptionExhausts ==
    \A t \in Threads :
       (pc[t] = "give_up" /\ Last(events[t]) = "exception")
          => Len(sent[t]) = config.retries + 1

\* C21: a failure of the Sink call that is not a LogException is treated
\* exactly like a retryable LogException: sleep the current backoff, double
\* it capped at max_backoff and retry while attempts remain; after the
\* (retries + 1)-th attempt stop and record the chunk as failed.
C21_ExceptionRetried == []C21_ExceptionExhausts /\ [][C21_FailureStep]_vars

\* C21 witness: retries = 2, three non-LogException failures with sleeps of
\* 1 and 2 between them, then the chunk was recorded as failed.
C21_Witness ==
    \E t \in Threads :
       /\ config.retries = 2
       /\ events[t] = <<"exception", "sleep", "exception", "sleep",
                        "exception">>
       /\ delays[t] = <<1, 2>>
       /\ pc[t] = "batch_loop"
       /\ stats = [ZeroStats EXCEPT !.send_fail = 1]

\* The ids of the logs passed to put_log_raw for the current chunk.
SentIds(t) ==
    UNION { { sent[t][k][j] : j \in DOMAIN sent[t][k] } :
              k \in DOMAIN sent[t] }

\* C22 (step part): whatever the Sink call does, the thread stays inside
\* _send_chunk or returns from it to the loop of _send_batch; a chunk
\* recorded as failed moves that loop on to the next chunk of the same
\* batch; _send_batch returns to its caller, the flush thread to its loop.
C22_FailureContained ==
    \A t \in Threads :
       /\ (pc[t] = "attempt" /\ pc'[t] # "attempt") =>
             pc'[t] \in {"sleep", "give_up", "batch_loop"}
       /\ (pc[t] = "give_up" /\ pc'[t] # "give_up") =>
             /\ pc'[t] = "batch_loop"
             /\ entries'[t] = entries[t]
             /\ i'[t] = i[t] + config.max_batch_count
       /\ (pc[t] = "batch_loop" /\ pc'[t] # "batch_loop") =>
             IF i[t] < Len(entries[t])
             THEN /\ pc'[t] = "attempt"
                  /\ Last(chunks'[t]) =
                        Chunk(entries[t], i[t], config.max_batch_count)
             ELSE pc'[t] = AfterFlush(t)

\* C22 (liveness part): a dispatch always returns, and every buffered entry
\* is eventually drained and passed to the Sink, whatever failed before.
C22_KeepsRunning ==
    /\ \A t \in Threads : InFlight(t) ~> ~InFlight(t)
    /\ \A id \in 1..MaxSends :
          (id \in Ids(buffer)) ~> (\E t \in Threads : id \in SentIds(t))

\* C22: a delivery failure never escapes the Dispatcher: for every sequence
\* of Sink outcomes dispatch returns to its caller, a failed chunk does not
\* keep the remaining chunks of the drain from being attempted, and the
\* flush thread goes on draining and dispatching later entries.
C22_FailuresContained == [][C22_FailureContained]_vars /\ C22_KeepsRunning

\* C22 witness: the first chunk of a drain of two entries was recorded as
\* failed and the second chunk of the same drain was delivered.
C22_Witness ==
    /\ Len(entries[Sched]) = 2
    /\ Len(chunks[Sched]) = 2
    /\ stats.send_fail = 1
    /\ stats.send_success = 1
    /\ events[Sched] # <<>>
    /\ Last(events[Sched]) = "ok"
    /\ pc[Sched] = "batch_loop"

\* C23: under fair scheduling every entry for which send() returned True is
\* eventually out of the buffer, taken by a drain of the flush thread, of
\* flush() or of close().
C23_AcceptedEventuallyDrained ==
    \A id \in 1..MaxSends :
       (id \in accepted) ~> (id \notin Ids(buffer))

\* C24: at most one thread at a time is inside the shutdown sequence of
\* close() (set the flag, notify, join, final flush, stats log); a close()
\* that finds another one under way returns without doing anything.
C24_OneShutdown ==
    Cardinality({ t \in Callers : op[t] = "close" }) <= 1

====
